---- MODULE Spec2Model ----
(***************************************************************************)
(* The routing-and-forwarding engine of simple_proxy (src/main.go): the    *)
(* CustomRouter's longest-prefix match, the per-target Director, the       *)
(* ErrorHandler, the proxyHandler with its optional responseRecorder, and  *)
(* the life of one exchange from arrival to the last byte written.         *)
(*                                                                         *)
(* Strings that the code inspects character by character (paths, path      *)
(* prefixes) are sequences of one-character strings; strings it only       *)
(* copies or compares (hosts, schemes, error texts) are TLA+ strings; a    *)
(* query string is the sequence of its "k=v" parts, joined by "&".  A body *)
(* is a sequence of segments [b |-> what the bytes are, n |-> how many].   *)
(*                                                                         *)
(* Specifications: Spec (the server after startup, one exchange at a       *)
(* time), SpecTLS (targets that differ in their insecure flag),            *)
(* SpecStartup (main from the command line on), SpecConcurrent (two        *)
(* handler goroutines), SpecHistory (Spec with a history variable).        *)
(***************************************************************************)
EXTENDS Integers, Sequences, FiniteSets, TLC

VARIABLES
    args,            \* the command line (flag values) and the config file it names
    configs,         \* ProxyConfigs: Listen, Timeout, Verbose, Targets
    router,          \* *CustomRouter: Targets (in configuration order), Fallback
    failedBefore,    \* history variable of SpecHistory: an exchange has failed
    other,           \* the exchange of a second handler goroutine
    pc,              \* where the handler goroutine of the exchange stands
    req,             \* the inbound *http.Request as the router sees it
    handed,          \* req.URL.Path as the Director hands it to originalDirector
    outreq,          \* the outbound request after proxy.Director ran
    matched,         \* index into router.Targets of matchedTarget, 0 for nil
    attempts,        \* transport.RoundTrip calls made for this exchange
    deadlinePassed,  \* configs.Timeout has elapsed since the request arrived
    upstream,        \* what the backend has answered so far: status, body read
    rw,              \* the response sink: the caller's writer w, and the recorder
    transport,       \* the http.Transport the round trip in flight is made on
    logged           \* what logResponse has printed of this exchange's response

vars == <<args, configs, router, failedBefore, other, pc, req, handed, outreq, matched,
          attempts, deadlinePassed, upstream, rw, transport, logged>>

-----------------------------------------------------------------------------
(* Bounds of the model *)

MaxTargets == 2
MaxPathLen == 4
MaxChunks == 2

(* Program constants *)

StatusOK == 200
StatusSwitchingProtocols == 101
StatusNotFound == 404
StatusBadGateway == 502
maxBodyLogSize == 1000

-----------------------------------------------------------------------------
(* strings.HasPrefix, strings.TrimPrefix, strings.HasSuffix over sequences *)

Alphabet == {"/", "a"}

Strs(n) == UNION {[1..k -> Alphabet] : k \in 0..n}

HasPrefix(s, prefix) ==
    /\ Len(prefix) <= Len(s)
    /\ SubSeq(s, 1, Len(prefix)) = prefix

HasSuffix(s, suffix) ==
    /\ Len(suffix) <= Len(s)
    /\ SubSeq(s, Len(s) - Len(suffix) + 1, Len(s)) = suffix

TrimPrefix(s, prefix) ==
    IF HasPrefix(s, prefix) THEN SubSeq(s, Len(prefix) + 1, Len(s)) ELSE s

Slash == <<"/">>

-----------------------------------------------------------------------------
(* url.Parse.  A raw URL is the sequence of its lexical pieces: a scheme   *)
(* word, ":", "//", the authority, the characters of the path, "?", the   *)
(* "k=v" parts of the query.                                              *)

NoURL == [Scheme |-> "", Host |-> "", Path |-> <<>>, RawQuery |-> <<>>]

ErrMissingScheme == "missing protocol scheme"

ErrInvalidEscape == "invalid URL escape"

BadEscape == "%zz"

\* strings.Index: the first position of piece t in s, 0 when it is absent.
Index(s, t) ==
    IF \E i \in 1..Len(s) : s[i] = t
    THEN CHOOSE i \in 1..Len(s) : s[i] = t /\ \A j \in 1..(i - 1) : s[j] # t
    ELSE 0

\* url.getScheme
getScheme(rawURL) ==
    IF Len(rawURL) >= 1 /\ rawURL[1] = ":"
    THEN [scheme |-> "", rest |-> <<>>, err |-> ErrMissingScheme]
    ELSE IF Len(rawURL) >= 2 /\ rawURL[2] = ":"
    THEN [scheme |-> rawURL[1], rest |-> SubSeq(rawURL, 3, Len(rawURL)), err |-> ""]
    ELSE [scheme |-> "", rest |-> rawURL, err |-> ""]

\* url.Parse: scheme, then query, then an opaque or relative rest, then
\* the authority after "//", then the path, which must unescape.
Parse(rawURL) ==
    LET s == getScheme(rawURL)
        q == Index(s.rest, "?")
        rest == IF q = 0 THEN s.rest ELSE SubSeq(s.rest, 1, q - 1)
        RawQuery == IF q = 0 THEN <<>> ELSE SubSeq(s.rest, q + 1, Len(s.rest))
        rooted == rest # <<>> /\ rest[1] \in {"/", "//"}
        authority == rest # <<>> /\ rest[1] = "//"
        Host == IF authority /\ Len(rest) >= 2 /\ rest[2] # "/" THEN rest[2] ELSE ""
        Path == IF ~authority THEN rest
                ELSE IF Host = "" THEN Tail(rest)
                ELSE SubSeq(rest, 3, Len(rest))
    IN  IF s.err # "" THEN [URL |-> NoURL, err |-> s.err]
        ELSE IF ~rooted /\ s.scheme # ""
        THEN [URL |-> [NoURL EXCEPT !.Scheme = s.scheme, !.RawQuery = RawQuery],
              err |-> ""]
        ELSE IF Index(Path, BadEscape) # 0
        THEN [URL |-> NoURL, err |-> ErrInvalidEscape]
        ELSE [URL |-> [Scheme |-> s.scheme, Host |-> Host, Path |-> Path,
                       RawQuery |-> RawQuery],
              err |-> ""]

-----------------------------------------------------------------------------
(* The configuration space.  Target number i points at backend number i,  *)
(* so that different targets have different origins.                      *)

OriginURLs ==
    << <<"https", ":", "//", "h1">>,
       <<"http", ":", "//", "h2:8080", "/", "b", "?", "k=1">>,
       <<"https", ":", "//", "h3", "/">> >>

Origin(i) == OriginURLs[((i - 1) % Len(OriginURLs)) + 1]

\* The path prefixes a target may be configured with; the code accepts any
\* string, the empty one included.
Prefixes == {<<>>, <<"/">>, <<"/", "a">>}

ProxyConfigAt(i) ==
    [Path : Prefixes, TargetURL : {Origin(i)}, Insecure : {FALSE},
     StripPrefix : BOOLEAN]

TargetLists ==
    UNION {{ts \in [1..n -> UNION {ProxyConfigAt(i) : i \in 1..n}] :
               \A i \in 1..n : ts[i] \in ProxyConfigAt(i)} : n \in 1..MaxTargets}

\* Request paths as the server hands them to the handler: empty (the
\* authority form of CONNECT) or starting with "/".
Paths == {s \in Strs(MaxPathLen) : s = <<>> \/ s[1] = "/"}

Queries == {<<>>, <<"x=1">>}

InboundHosts == {"proxy.test", "h1"}

UpgradeTypes == {"", "websocket"}

Requests ==
    [URL : [Scheme : {""}, Host : {""}, Path : Paths, RawQuery : Queries],
     Host : InboundHosts, Upgrade : UpgradeTypes]

NoRequest == [URL |-> [Scheme |-> "", Host |-> "", Path |-> <<>>,
                       RawQuery |-> <<>>],
              Host |-> "", Upgrade |-> ""]

-----------------------------------------------------------------------------
(* Response bodies.  A chunk is what one Read of the upstream body        *)
(* returns and one Write hands on.                                         *)

UpstreamBytes == {"x", "y"}

Chunks == {<<[b |-> "x", n |-> 600]>>, <<[b |-> "y", n |-> 1]>>}

StatusCodes == {StatusSwitchingProtocols, StatusOK, StatusNotFound}

\* Errors of transport.RoundTrip (the second is what it returns when the
\* server cancels the context of the inbound request), and the two errors ReverseProxy itself
\* hands to the ErrorHandler when a 101 response cannot be served.
TransportErrors == {"connection refused", "context canceled"}

ErrUnsupportedScheme == "unsupported protocol scheme"

ErrSwitchMismatch == "backend tried to switch protocol"

ErrNotHijacker == "can't switch protocols using non-Hijacker ResponseWriter"

RECURSIVE BodyLen(_)
BodyLen(body) ==
    IF body = <<>> THEN 0 ELSE Head(body).n + BodyLen(Tail(body))

NoUpstream == [err |-> "", status |-> 0, Upgrade |-> "", body |-> <<>>]

-----------------------------------------------------------------------------
(* The response sink.  The caller's writer w is net/http's *http.response; *)
(* status 0 means that no header has been written yet.  A responseRecorder *)
(* embeds the http.ResponseWriter interface and defines WriteHeader and    *)
(* Write of its own; no other method of the wrapped writer is promoted.    *)

NewResponseWriter ==
    [type |-> "*http.response", status |-> 0, body |-> <<>>, hijacked |-> FALSE]

ResponseWriteHeader(w, statusCode) ==
    IF w.status # 0 THEN w ELSE [w EXCEPT !.status = statusCode]

ResponseWrite(w, b) ==
    [w EXCEPT !.status = IF @ = 0 THEN StatusOK ELSE @, !.body = @ \o b]

newResponseRecorder(w) ==
    [type |-> "*responseRecorder", ResponseWriter |-> w,
     statusCode |-> StatusOK, body |-> <<>>]

RecorderWriteHeader(r, statusCode) ==
    [r EXCEPT !.statusCode = statusCode,
              !.ResponseWriter = ResponseWriteHeader(@, statusCode)]

RecorderWrite(r, b) ==
    [r EXCEPT !.body = @ \o b, !.ResponseWriter = ResponseWrite(@, b)]

IsRecorder(x) == x.type = "*responseRecorder"

\* Dynamic dispatch on the http.ResponseWriter interface value.
WriteHeader(x, statusCode) ==
    IF IsRecorder(x) THEN RecorderWriteHeader(x, statusCode)
    ELSE ResponseWriteHeader(x, statusCode)

Write(x, b) ==
    IF IsRecorder(x) THEN RecorderWrite(x, b) ELSE ResponseWrite(x, b)

\* http.NewResponseController(rw).Hijack(): *http.response is a Hijacker;
\* responseRecorder has neither a Hijack nor an Unwrap method.
CanHijack(x) == x.type = "*http.response"

Hijack(x) == [x EXCEPT !.status = StatusSwitchingProtocols, !.hijacked = TRUE]

\* What the caller of the proxy is sent: the state of the writer w itself.
Caller(x) == IF IsRecorder(x) THEN x.ResponseWriter ELSE x

\* http.NotFound(w, req): http.Error with "404 page not found", which writes
\* the header and then the text and a line feed.
NotFoundText == <<[b |-> "404 page not found\n", n |-> 19]>>

\* Mutant: the header alone, no text.
NotFoundNoBody(x) == WriteHeader(x, StatusNotFound)

NotFound(x) == Write(WriteHeader(x, StatusNotFound), NotFoundText)

\* fmt.Fprintf(w, "Error proxying request: %v", err)
ErrLen(err) ==
    CASE err = "connection refused" -> 18
      [] err = "context canceled" -> 16
      [] err = ErrSwitchMismatch -> 32
      [] err = ErrUnsupportedScheme -> 27
      [] OTHER -> 56

ErrorText(err) ==
    <<[b |-> <<"Error proxying request: ", err>>, n |-> 24 + ErrLen(err)]>>

\* Mutant: the text without the WriteHeader call before it.
ErrorHandlerNoHeader(x, err) == Write(x, ErrorText(err))

ErrorHandler(x, err) == Write(WriteHeader(x, StatusBadGateway), ErrorText(err))

-----------------------------------------------------------------------------
(* CustomRouter.ServeHTTP: the scan for the most specific target.          *)

\* Mutant: the first matching target is kept.
MoreSpecificFirstMatch(pathLen, matchedPathLen) ==
    pathLen > 0 /\ matchedPathLen = 0

\* Mutant: >= for >.
MoreSpecificOrEqual(pathLen, matchedPathLen) == pathLen >= matchedPathLen

MoreSpecific(pathLen, matchedPathLen) == pathLen > matchedPathLen

RECURSIVE Scan(_, _, _, _, _)
Scan(targets, path, i, matchedTarget, matchedPathLen) ==
    IF i > Len(targets) THEN matchedTarget
    ELSE LET pathLen == Len(targets[i].Config.Path)
         IN  IF /\ HasPrefix(path, targets[i].Config.Path)
                /\ MoreSpecific(pathLen, matchedPathLen)
             THEN Scan(targets, path, i + 1, i, pathLen)
             ELSE Scan(targets, path, i + 1, matchedTarget, matchedPathLen)

\* Mutant: the first target serves what nothing matches.
MatchedTargetOrFirst(r, path) ==
    LET m == Scan(r.Targets, path, 1, 0, 0) IN IF m = 0 THEN 1 ELSE m

\* The index of matchedTarget in r.Targets, 0 for nil.
MatchedTarget(r, path) == Scan(r.Targets, path, 1, 0, 0)

-----------------------------------------------------------------------------
(* main's loop over configs.Targets: the reverse proxy of one target.      *)

\* Mutant: certificate verification is skipped for every target.
NewTransportInsecure(targetConfig) ==
    [InsecureSkipVerify |-> TRUE]

\* http.Transport of the target
NewTransport(targetConfig) ==
    [InsecureSkipVerify |-> targetConfig.Insecure]

\* What the closures of iteration i capture: targetConfig and i are the
\* loop's per-iteration variables (Go 1.22 and later; the README asks for
\* Go 1.24), parsedURL and transport are declared in the loop body.
NewProxyTarget(i, targetConfig) ==
    [Config |-> targetConfig,
     Index |-> i - 1,
     Handler |-> [targetConfig |-> targetConfig,
                  parsedURL |-> Parse(targetConfig.TargetURL).URL,
                  transport |-> NewTransport(targetConfig),
                  i |-> i - 1]]

\* Mutant: the closures of every iteration share the loop's one
\* targetConfig and i, which hold the values of the last iteration.
NewRouterSharedLoopVariables(targets) ==
    [Targets |->
         [i \in 1..Len(targets) |->
              [NewProxyTarget(i, targets[i]) EXCEPT
                   !.Handler.targetConfig = targets[Len(targets)],
                   !.Handler.i = Len(targets) - 1]],
     Fallback |-> "nil"]

NewRouter(targets) ==
    [Targets |-> [i \in 1..Len(targets) |-> NewProxyTarget(i, targets[i])],
     Fallback |-> "nil"]

-----------------------------------------------------------------------------
(* main: the flags, the configuration file, the resolved ProxyConfigs.     *)

DefaultListen == ":8000"

DefaultTimeout == 30

\* configs as main declares it
DefaultConfigs ==
    [Listen |-> DefaultListen, Timeout |-> DefaultTimeout, Verbose |-> FALSE,
     Targets |-> <<>>]

\* json.Unmarshal(configData, &configs): a field the document has replaces
\* the value configs holds, a field it lacks leaves that value alone.  A
\* field of the document is a sequence of no or one value.
Unmarshal(file, into) ==
    [Listen |-> IF file.listen # <<>> THEN file.listen[1] ELSE into.Listen,
     Timeout |-> IF file.timeout # <<>> THEN file.timeout[1] ELSE into.Timeout,
     Verbose |-> IF file.verbose # <<>> THEN file.verbose[1] ELSE into.Verbose,
     Targets |-> IF file.targets # <<>> THEN file.targets ELSE into.Targets]

\* The mode selection of main for the command line a: the configs main
\* goes on with, or the reason it exits.
LoadConfigs(a) ==
    IF a.config # ""
    THEN LET cli == [DefaultConfigs EXCEPT !.Listen = a.listen,
                                           !.Timeout = a.timeout,
                                           !.Verbose = a.verbose]
         IN  IF a.file.kind = "unreadable"
             THEN [fatal |-> "Error reading config file", configs |-> cli]
             ELSE IF a.file.kind = "invalid"
             THEN [fatal |-> "Error parsing config file", configs |-> cli]
             ELSE IF Len(Unmarshal(a.file, cli).Targets) = 0
             THEN [fatal |-> "No targets defined in config file",
                   configs |-> Unmarshal(a.file, cli)]
             ELSE [fatal |-> "", configs |-> Unmarshal(a.file, cli)]
    ELSE IF a.target # <<>>
    THEN [fatal |-> "",
          configs |-> [DefaultConfigs EXCEPT !.Targets =
                          << [Path |-> Slash, TargetURL |-> a.target,
                              Insecure |-> a.insecure, StripPrefix |-> FALSE] >>]]
    ELSE [fatal |-> "Error: either target URL or config file is required",
          configs |-> DefaultConfigs]

\* The iterations of the target loop in which url.Parse returns an error.
ParseFailures(targets) ==
    {i \in 1..Len(targets) : Parse(targets[i].TargetURL).err # ""}

\* httputil's singleJoiningSlash, used by joinURLPath when neither URL has
\* a RawPath (no path of the model needs escaping).
singleJoiningSlash(a, b) ==
    LET aslash == HasSuffix(a, Slash)
        bslash == HasPrefix(b, Slash)
    IN  IF aslash /\ bslash THEN a \o Tail(b)
        ELSE IF ~aslash /\ ~bslash THEN a \o Slash \o b
        ELSE a \o b

\* The director NewSingleHostReverseProxy(parsedURL) installs.
originalDirector(target, r) ==
    [r EXCEPT !.URL.Scheme = target.Scheme,
              !.URL.Host = target.Host,
              !.URL.Path = singleJoiningSlash(target.Path, @),
              !.URL.RawQuery = target.RawQuery \o @]

\* Mutant: the remainder is not given its leading "/".
StripPathNoSlash(targetConfig, path) ==
    IF targetConfig.StripPrefix /\ targetConfig.Path # Slash
    THEN TrimPrefix(path, targetConfig.Path)
    ELSE path

\* Mutant: the prefix is stripped whatever StripPrefix says.
StripPathIgnoringFlag(targetConfig, path) ==
    IF targetConfig.Path # Slash
    THEN LET trimmed == TrimPrefix(path, targetConfig.Path)
         IN  IF ~HasPrefix(trimmed, Slash) THEN Slash \o trimmed ELSE trimmed
    ELSE path

\* Lines 181-187: the optional prefix strip.
StripPath(targetConfig, path) ==
    IF targetConfig.StripPrefix /\ targetConfig.Path # Slash
    THEN LET trimmed == TrimPrefix(path, targetConfig.Path)
         IN  IF ~HasPrefix(trimmed, Slash) THEN Slash \o trimmed ELSE trimmed
    ELSE path

\* Mutant: the Host of the inbound request is left in place.
SetHostKept(r, parsedURL) == r

\* Line 192
SetHost(r, parsedURL) == [r EXCEPT !.Host = parsedURL.Host]

\* req.URL.Path at line 189, where the Director calls originalDirector.
Stripped(h, r) == StripPath(h.targetConfig, r.URL.Path)

\* proxy.Director of the handler h, applied to the outbound clone r.
Director(h, r) ==
    SetHost(originalDirector(h.parsedURL,
                [r EXCEPT !.URL.Path = Stripped(h, r)]),
            h.parsedURL)

\* Once transport.RoundTrip has returned, the proxy reads nothing of the
\* request but, for a 101 response, the Upgrade header of the outbound
\* request.
Released(r) == [NoRequest EXCEPT !.Upgrade = r.Upgrade]

-----------------------------------------------------------------------------
(* The state after construction: the router main builds from the resolved *)
(* target list, the server idle.                                           *)

\* No round trip in flight, nothing logged yet.
NoTransport == <<>>

NoLog == <<>>

\* The state of one handler goroutine.
Exchange ==
    [pc |-> pc, req |-> req, handed |-> handed, outreq |-> outreq,
     matched |-> matched, attempts |-> attempts,
     deadlinePassed |-> deadlinePassed, upstream |-> upstream, rw |-> rw,
     transport |-> transport, logged |-> logged]

IdleExchange ==
    [pc |-> "idle", req |-> NoRequest, handed |-> <<>>, outreq |-> NoRequest,
     matched |-> 0, attempts |-> 0, deadlinePassed |-> FALSE,
     upstream |-> NoUpstream, rw |-> NewResponseWriter,
     transport |-> NoTransport, logged |-> NoLog]

Idle ==
    /\ pc = "idle"
    /\ req = NoRequest
    /\ handed = <<>>
    /\ outreq = NoRequest
    /\ matched = 0
    /\ attempts = 0
    /\ deadlinePassed = FALSE
    /\ upstream = NoUpstream
    /\ rw = NewResponseWriter
    /\ transport = NoTransport
    /\ logged = NoLog
    /\ other = IdleExchange
    /\ failedBefore = FALSE

\* main has run on the command line a and the server is listening.
Serving(a) ==
    /\ args = a
    /\ configs = LoadConfigs(a).configs
    /\ router = NewRouter(LoadConfigs(a).configs.Targets)
    /\ Idle

\* A command line that names a configuration file and leaves every other
\* flag at its default.
ConfigFileArgs(file) ==
    [listen |-> DefaultListen, target |-> <<>>, verbose |-> FALSE,
     insecure |-> FALSE, timeout |-> DefaultTimeout, config |-> "config.json",
     file |-> file]

\* A configuration file that sets verbose and targets.
ConfigFile(verbose, targets) ==
    [kind |-> "json", listen |-> <<>>, timeout |-> <<>>,
     verbose |-> <<verbose>>, targets |-> targets]

Init ==
    \E targets \in TargetLists, verbose \in BOOLEAN :
        Serving(ConfigFileArgs(ConfigFile(verbose, targets)))

-----------------------------------------------------------------------------
(* One exchange.                                                           *)

\* Mutant: one recorder serves the requests in flight, rebound to the
\* writer of the latest.
SinkShared(w) ==
    IF ~configs.Verbose THEN w
    ELSE IF IsRecorder(other.rw) THEN [other.rw EXCEPT !.ResponseWriter = w]
    ELSE newResponseRecorder(w)

\* proxyHandler: the sink proxy.ServeHTTP is given.
Sink(w) == IF configs.Verbose THEN newResponseRecorder(w) ELSE w

\* The first n bytes of a body: body[:n]
RECURSIVE Take(_, _)
Take(body, n) ==
    IF body = <<>> \/ n <= 0 THEN <<>>
    ELSE IF Head(body).n <= n
    THEN <<Head(body)>> \o Take(Tail(body), n - Head(body).n)
    ELSE <<[Head(body) EXCEPT !.n = n]>>

\* logResponse: the status and the body it prints, the body cut at
\* maxBodyLogSize bytes and then marked "... [truncated]".
logResponse(recorder) ==
    <<[statusCode |-> recorder.statusCode,
       body |-> IF BodyLen(recorder.body) > maxBodyLogSize
                THEN Take(recorder.body, maxBodyLogSize)
                ELSE recorder.body,
       truncated |-> BodyLen(recorder.body) > maxBodyLogSize]>>

\* proxyHandler after proxy.ServeHTTP has returned with the sink x.
LogAfter(x) == IF configs.Verbose THEN logResponse(x) ELSE NoLog

\* The server hands request r to router.ServeHTTP.  The router scans its
\* targets; the handler of the matched target runs the Director and calls
\* transport.RoundTrip.  With no match and no Fallback it answers 404.
ServeHTTP(r) ==
    /\ pc = "idle"
    /\ LET m == MatchedTarget(router, r.URL.Path)
       IN  IF m # 0
           THEN /\ matched' = m
                /\ handed' = Stripped(router.Targets[m].Handler, r)
                /\ outreq' = Director(router.Targets[m].Handler, r)
                /\ transport' = <<router.Targets[m].Handler.transport>>
                /\ rw' = Sink(NewResponseWriter)
                /\ attempts' = 1
                /\ pc' = "roundtrip"
           ELSE IF router.Fallback # "nil"
           THEN /\ pc' = "fallback"
                /\ UNCHANGED <<matched, handed, outreq, transport, rw, attempts>>
           ELSE /\ rw' = NotFound(NewResponseWriter)
                /\ pc' = "done"
                /\ UNCHANGED <<matched, handed, outreq, transport, attempts>>
    /\ req' = r
    /\ UNCHANGED <<args, configs, router, failedBefore, other, deadlinePassed,
                   upstream, logged>>

\* The errors transport.RoundTrip can return for the outbound request r.
RoundTripErrors(r) ==
    IF r.URL.Scheme \in {"http", "https"} /\ r.URL.Host # ""
    THEN TransportErrors
    ELSE {ErrUnsupportedScheme}

\* Mutant: a target whose backend fails is taken out of the routing table.
RoundTripFailsEjecting(err) ==
    /\ pc = "roundtrip"
    /\ err \in RoundTripErrors(outreq)
    /\ upstream' = [upstream EXCEPT !.err = err]
    /\ rw' = ErrorHandler(rw, err)
    /\ logged' = LogAfter(ErrorHandler(rw, err))
    /\ pc' = "done"
    /\ req' = NoRequest
    /\ handed' = <<>>
    /\ outreq' = NoRequest
    /\ matched' = 0
    /\ transport' = NoTransport
    /\ router' = [router EXCEPT !.Targets =
                      [i \in 1..(Len(@) - 1) |->
                           IF i < matched THEN @[i] ELSE @[i + 1]]]
    /\ UNCHANGED <<args, configs, failedBefore, other, attempts, deadlinePassed>>

\* transport.RoundTrip returns an error: ReverseProxy calls the
\* ErrorHandler and returns; proxyHandler logs what the recorder saw and
\* returns.
RoundTripFails(err) ==
    /\ pc = "roundtrip"
    /\ err \in RoundTripErrors(outreq)
    /\ upstream' = [upstream EXCEPT !.err = err]
    /\ rw' = ErrorHandler(rw, err)
    /\ logged' = LogAfter(ErrorHandler(rw, err))
    /\ pc' = "done"
    /\ req' = NoRequest
    /\ handed' = <<>>
    /\ outreq' = NoRequest
    /\ matched' = 0
    /\ transport' = NoTransport
    /\ UNCHANGED <<args, configs, router, failedBefore, other, attempts,
                   deadlinePassed>>

\* ReverseProxy.handleUpgradeResponse
handleUpgradeResponse(x, reqUpType, resUpType) ==
    IF reqUpType # resUpType THEN ErrorHandler(x, ErrSwitchMismatch)
    ELSE IF ~CanHijack(x) THEN ErrorHandler(x, ErrNotHijacker)
    ELSE Hijack(x)

\* transport.RoundTrip returns the response header.  A 101 response is
\* handed to handleUpgradeResponse; any other status is written to the
\* sink and the body copy begins.
RoundTripReturns(statusCode) ==
    /\ pc = "roundtrip"
    /\ RoundTripErrors(outreq) = TransportErrors
    /\ LET resUpType ==
               IF statusCode = StatusSwitchingProtocols THEN "websocket" ELSE ""
       IN  /\ upstream' = [upstream EXCEPT !.status = statusCode,
                                           !.Upgrade = resUpType]
           /\ IF statusCode = StatusSwitchingProtocols
              THEN /\ rw' = handleUpgradeResponse(rw, outreq.Upgrade, resUpType)
                   /\ logged' =
                          LogAfter(handleUpgradeResponse(rw, outreq.Upgrade,
                                                         resUpType))
                   /\ outreq' = Released(outreq)
                   /\ pc' = "done"
              ELSE /\ rw' = WriteHeader(rw, statusCode)
                   /\ logged' = logged
                   /\ outreq' = NoRequest
                   /\ pc' = "copy"
    /\ req' = NoRequest
    /\ handed' = <<>>
    /\ matched' = 0
    /\ transport' = NoTransport
    /\ UNCHANGED <<args, configs, router, failedBefore, other, attempts,
                   deadlinePassed>>

\* copyResponse: one Read of the upstream body, one Write to the sink.
CopyChunk(chunk) ==
    /\ pc = "copy"
    /\ Len(upstream.body) < MaxChunks
    /\ upstream' = [upstream EXCEPT !.body = @ \o chunk]
    /\ rw' = Write(rw, chunk)
    /\ UNCHANGED <<args, configs, router, failedBefore, other, pc, req, handed,
                   outreq, matched, attempts, deadlinePassed, transport, logged>>

\* The upstream body ends: ReverseProxy.ServeHTTP returns and, when
\* verbose, logResponse reads the recorder.
CopyDone ==
    /\ pc = "copy"
    /\ pc' = "done"
    /\ logged' = LogAfter(rw)
    /\ UNCHANGED <<args, configs, router, failedBefore, other, req, handed,
                   outreq, matched, attempts, deadlinePassed, upstream, rw,
                   transport>>

\* A Read of the upstream body or a Write to the caller fails:
\* ReverseProxy panics with http.ErrAbortHandler, the server recovers and
\* closes the caller's connection.
CopyFails ==
    /\ pc = "copy"
    /\ pc' = "aborted"
    /\ UNCHANGED <<args, configs, router, failedBefore, other, req, handed,
                   outreq, matched, attempts, deadlinePassed, upstream, rw,
                   transport, logged>>

\* The configured timeout elapses.  It is set on the http.Server only
\* (ReadTimeout, WriteTimeout), where it puts deadlines on the caller's
\* connection; the transport has no ResponseHeaderTimeout and the outbound
\* request no deadline of its own, so the call in flight goes on.  (If the
\* server notices the read deadline it cancels the request's context:
\* RoundTripFails or CopyFails may follow.)
ServerTimeoutElapses ==
    /\ pc \in {"roundtrip", "copy"}
    /\ ~deadlinePassed
    /\ deadlinePassed' = TRUE
    /\ UNCHANGED <<args, configs, router, failedBefore, other, pc, req, handed,
                   outreq, matched, attempts, upstream, rw, transport, logged>>

\* The exchange ended in the router's 404, in a 502 or in an abort.
Failed ==
    \/ pc = "aborted"
    \/ pc = "done" /\ Caller(rw).status \in {StatusNotFound, StatusBadGateway}

\* The handler has returned: the exchange is discarded and the server
\* serves the next request.  The history of the process becomes h.
Return(h) ==
    /\ pc \in {"done", "aborted"}
    /\ pc' = "idle"
    /\ req' = NoRequest
    /\ handed' = <<>>
    /\ outreq' = NoRequest
    /\ matched' = 0
    /\ attempts' = 0
    /\ deadlinePassed' = FALSE
    /\ upstream' = NoUpstream
    /\ rw' = NewResponseWriter
    /\ transport' = NoTransport
    /\ logged' = NoLog
    /\ failedBefore' = h
    /\ UNCHANGED <<args, configs, router, other>>

Finish == Return(failedBefore)

\* The steps of an exchange after the request has arrived.
Respond ==
    \/ \E err \in TransportErrors \cup {ErrUnsupportedScheme} : RoundTripFails(err)
    \/ \E statusCode \in StatusCodes : RoundTripReturns(statusCode)
    \/ \E chunk \in Chunks : CopyChunk(chunk)
    \/ CopyDone
    \/ CopyFails
    \/ ServerTimeoutElapses

Next ==
    \/ \E r \in Requests : ServeHTTP(r)
    \/ Respond
    \/ Finish

Spec == Init /\ [][Next]_vars

-----------------------------------------------------------------------------
(* Targets that differ in their insecure flag.                             *)

ProxyConfigTLSAt(i) ==
    [Path : {<<"/">>, <<"/", "a">>}, TargetURL : {Origin(i)}, Insecure : BOOLEAN,
     StripPrefix : {FALSE}]

TargetListsTLS ==
    UNION {{ts \in [1..n -> UNION {ProxyConfigTLSAt(i) : i \in 1..n}] :
               \A i \in 1..n : ts[i] \in ProxyConfigTLSAt(i)} : n \in 1..MaxTargets}

InitTLS ==
    \E targets \in TargetListsTLS :
        Serving(ConfigFileArgs(ConfigFile(FALSE, targets)))

SpecTLS == InitTLS /\ [][Next]_vars

-----------------------------------------------------------------------------
(* Startup: main from the command line to ListenAndServe or to its exit.   *)

\* Origin URLs a user may write: a usable one, "h4" (no scheme, no "//":
\* url.Parse reads it as a relative path), "://h4" and one with a broken
\* percent-escape.
RelativeURL == <<"h4">>

StartupURLs ==
    {Origin(1), RelativeURL, <<":", "//", "h4">>,
     <<"https", ":", "//", "h4", "/", BadEscape>>}

SingleTarget(rawURL, insecure) ==
    [Path |-> Slash, TargetURL |-> rawURL, Insecure |-> insecure,
     StripPrefix |-> FALSE]

FileTargetLists ==
    {<<>>, <<SingleTarget(Origin(1), FALSE), SingleTarget(<<":", "//", "h4">>, FALSE)>>}
        \cup {<<SingleTarget(u, FALSE)>> : u \in StartupURLs}

NoFile ==
    [kind |-> "none", listen |-> <<>>, timeout |-> <<>>, verbose |-> <<>>,
     targets |-> <<>>]

Files ==
    {[NoFile EXCEPT !.kind = k] : k \in {"unreadable", "invalid"}}
        \cup [kind : {"json"}, listen : {<<>>, <<":7000">>},
              timeout : {<<>>, <<10>>}, verbose : {<<>>, <<TRUE>>, <<FALSE>>},
              targets : FileTargetLists]

ArgSpace ==
    [listen : {DefaultListen, ":9000"}, target : {<<>>} \cup StartupURLs,
     verbose : BOOLEAN, insecure : BOOLEAN, timeout : {DefaultTimeout, 5},
     config : {""}, file : {NoFile}]
        \cup [listen : {DefaultListen, ":9000"}, target : {<<>>},
              verbose : BOOLEAN, insecure : {FALSE},
              timeout : {DefaultTimeout, 5}, config : {"config.json"},
              file : Files]

InitStartup ==
    /\ args \in ArgSpace
    /\ configs = DefaultConfigs
    /\ router = NewRouter(<<>>)
    /\ pc = "start"
    /\ req = NoRequest
    /\ handed = <<>>
    /\ outreq = NoRequest
    /\ matched = 0
    /\ attempts = 0
    /\ deadlinePassed = FALSE
    /\ upstream = NoUpstream
    /\ rw = NewResponseWriter
    /\ transport = NoTransport
    /\ logged = NoLog
    /\ other = IdleExchange
    /\ failedBefore = FALSE

\* main: the configs are resolved, the targets are set up one by one, and
\* the server starts to listen; or the process exits on the way.
main ==
    /\ pc = "start"
    /\ LET loaded == LoadConfigs(args)
           failures == ParseFailures(loaded.configs.Targets)
           first == CHOOSE i \in failures : \A j \in failures : i <= j
       IN  /\ configs' = loaded.configs
           /\ IF loaded.fatal # ""
              THEN pc' = "exited" /\ router' = router
              ELSE IF failures # {}
              THEN /\ pc' = "exited"
                   /\ router' = NewRouter(SubSeq(loaded.configs.Targets, 1,
                                                 first - 1))
              ELSE /\ pc' = "idle"
                   /\ router' = NewRouter(loaded.configs.Targets)
    /\ UNCHANGED <<args, failedBefore, other, req, handed, outreq, matched,
                   attempts, deadlinePassed, upstream, rw, transport, logged>>

NextStartup == main \/ Next

SpecStartup == InitStartup /\ [][NextStartup]_vars

-----------------------------------------------------------------------------
(* Two requests in flight.  The server runs each request's handler in a    *)
(* goroutine of its own; the variables of an exchange are those of the     *)
(* goroutine that is running, and `other' holds the goroutine that is not. *)

\* The scheduler lets the other handler goroutine run.
Schedule ==
    /\ other # Exchange
    /\ other' = Exchange
    /\ pc' = other.pc
    /\ req' = other.req
    /\ handed' = other.handed
    /\ outreq' = other.outreq
    /\ matched' = other.matched
    /\ attempts' = other.attempts
    /\ deadlinePassed' = other.deadlinePassed
    /\ upstream' = other.upstream
    /\ rw' = other.rw
    /\ transport' = other.transport
    /\ logged' = other.logged
    /\ UNCHANGED <<args, configs, router, failedBefore>>

InitConcurrent ==
    Serving(ConfigFileArgs(ConfigFile(TRUE, <<SingleTarget(Origin(1), FALSE)>>)))

\* The requests of the two callers.
ConcurrentRequests ==
    {r \in Requests : /\ Len(r.URL.Path) <= 1
                      /\ r.URL.RawQuery = <<>>
                      /\ r.Host = "proxy.test"}

NextConcurrent ==
    \/ Schedule
    \/ \E r \in ConcurrentRequests : ServeHTTP(r)
    \/ Respond
    \/ Finish

-----------------------------------------------------------------------------
(* The server with a history variable: failedBefore records that an        *)
(* exchange has ended in a 404, a 502 or an abort.                         *)

FinishRecorded == Return(failedBefore \/ Failed)

ProxyConfigStrippingAt(i) ==
    [Path : {<<"/">>, <<"/", "a">>}, TargetURL : {Origin(i)}, Insecure : {FALSE},
     StripPrefix : {TRUE}]

TargetListsStripping ==
    UNION {{ts \in [1..n -> UNION {ProxyConfigStrippingAt(i) : i \in 1..n}] :
               \A i \in 1..n : ts[i] \in ProxyConfigStrippingAt(i)} :
           n \in 1..MaxTargets}

InitHistory ==
    \E targets \in TargetListsStripping, verbose \in BOOLEAN :
        Serving(ConfigFileArgs(ConfigFile(verbose, targets)))

NextHistory ==
    \/ \E r \in Requests : ServeHTTP(r)
    \/ Respond
    \/ FinishRecorded

SpecHistory == InitHistory /\ [][NextHistory]_vars

SpecConcurrent == InitConcurrent /\ [][NextConcurrent]_vars

-----------------------------------------------------------------------------
(* Vocabulary of the properties.                                           *)

\* The handler of router.Targets[matched] has been invoked with req and
\* has sent outreq to the backend.
Dispatched == pc = "roundtrip"

\* The router has answered req itself, without any target's handler.
AnsweredByRouter == pc = "done" /\ attempts = 0

\* The states in which req is the request the router has just served.
Routed == Dispatched \/ AnsweredByRouter \/ pc = "fallback"

PrefixOf(j) == router.Targets[j].Config.Path

\* Target j's prefix is a string prefix of the request path.
Matches(j) ==
    /\ Len(PrefixOf(j)) <= Len(req.URL.Path)
    /\ \A k \in 1..Len(PrefixOf(j)) : PrefixOf(j)[k] = req.URL.Path[k]

TargetIndexes == 1..Len(router.Targets)

MatchedConfig == router.Targets[matched].Config

\* The origin the matched target is configured with.
MatchedOrigin == Parse(MatchedConfig.TargetURL).URL

\* a and b joined under exactly one "/" (b starts with "/").
UnderOrigin(a, b) ==
    IF a # <<>> /\ a[Len(a)] = "/" THEN a \o Tail(b) ELSE a \o b

\* The request path without its first n characters, as an absolute path.
Remainder(path, n) ==
    LET rest == [k \in 1..(Len(path) - n) |-> path[n + k]]
    IN  IF rest # <<>> /\ rest[1] = "/" THEN rest ELSE <<"/">> \o rest

-----------------------------------------------------------------------------
\* C1: whenever a request is dispatched to a target, no configured target
\* whose prefix is also a string prefix of the request path has a longer
\* prefix; and a request that two prefixes of different lengths match is
\* dispatched to a target.
C1_LongestPrefixWins ==
    /\ Dispatched =>
          /\ matched \in TargetIndexes
          /\ Matches(matched)
          /\ \A j \in TargetIndexes :
                Matches(j) => Len(PrefixOf(j)) <= Len(PrefixOf(matched))
    /\ Routed =>
          \A j1, j2 \in TargetIndexes :
             (Matches(j1) /\ Matches(j2)
                 /\ Len(PrefixOf(j1)) < Len(PrefixOf(j2))) =>
                (Dispatched /\ matched # j1)

\* A request dispatched to a target declared after a target with a shorter,
\* non-empty matching prefix.
C1_Witness ==
    /\ Dispatched
    /\ \E j \in TargetIndexes :
          /\ j < matched
          /\ Matches(j)
          /\ 0 < Len(PrefixOf(j))
          /\ Len(PrefixOf(j)) < Len(PrefixOf(matched))

\* C2: when several targets match with the same maximal prefix length, the
\* request is dispatched to the one declared first.
C2_FirstDeclaredWinsTie ==
    Dispatched =>
       \A j \in TargetIndexes :
          (Matches(j) /\ Len(PrefixOf(j)) = Len(PrefixOf(matched))) =>
             matched <= j

\* Two targets with the same matching prefix, the request dispatched.
C2_Witness ==
    /\ Dispatched
    /\ \E j \in TargetIndexes :
          /\ j > matched
          /\ Matches(j)
          /\ Len(PrefixOf(j)) = Len(PrefixOf(matched))

\* C3: a request whose path no configured prefix matches, with no fallback
\* configured, is answered with status 404; no target handler is invoked
\* and no outbound request is made for it.
C3_UnmatchedIs404 ==
    (/\ Routed
     /\ \A j \in TargetIndexes : ~Matches(j)
     /\ router.Fallback = "nil") =>
       /\ AnsweredByRouter
       /\ Caller(rw).status = 404
       /\ matched = 0
       /\ handed = <<>> /\ outreq = NoRequest
       /\ upstream = NoUpstream

\* A non-empty path that no target matches has been answered.
C3_Witness ==
    /\ AnsweredByRouter
    /\ req.URL.Path # <<>>
    /\ \A j \in TargetIndexes : ~Matches(j)
    /\ Caller(rw).status = 404

\* C4 as claimed: the router's 404 response has no body.
C4_NotFoundBodyEmpty ==
    AnsweredByRouter => BodyLen(Caller(rw).body) = 0

\* C4 as amended: the router's 404 response carries the 19 bytes
\* "404 page not found\n" that http.NotFound writes, and nothing else.
C4_NotFoundBodyIsStandardText ==
    AnsweredByRouter =>
       /\ Caller(rw).status = 404
       /\ Caller(rw).body = <<[b |-> "404 page not found\n", n |-> 19]>>
       /\ BodyLen(Caller(rw).body) = 19

\* The router has answered a request for "/" that no configured prefix
\* matches, and the caller has been sent a body.
C4_Witness ==
    /\ AnsweredByRouter
    /\ req.URL.Path = <<"/">>
    /\ Caller(rw).body # <<>>

\* C5: for a request dispatched to a target with StripPrefix and a prefix P
\* other than "/", the path joined under the origin is the request path
\* without its leading P, given a leading "/" when it has none (so it always
\* starts with "/", and is "/" when the path equals P); the query string
\* handed to the join is the inbound one.  Under an origin with no path and
\* no query of its own the outbound URL is <origin><remainder>?<query>.
C5_StripPrefixRewrite ==
    (Dispatched /\ MatchedConfig.StripPrefix /\ MatchedConfig.Path # <<"/">>) =>
       LET origin == MatchedOrigin
           stripped == Remainder(req.URL.Path, Len(MatchedConfig.Path))
       IN  /\ handed = stripped
           /\ handed[1] = "/"
           /\ req.URL.Path = MatchedConfig.Path => handed = <<"/">>
           /\ outreq.URL.Path = UnderOrigin(origin.Path, stripped)
           /\ outreq.URL.Path # <<>> /\ outreq.URL.Path[1] = "/"
           /\ outreq.URL.RawQuery = origin.RawQuery \o req.URL.RawQuery
           /\ (origin.Path = <<>> /\ origin.RawQuery = <<>>) =>
                  outreq.URL = [Scheme |-> origin.Scheme, Host |-> origin.Host,
                                Path |-> stripped,
                                RawQuery |-> req.URL.RawQuery]

\* Prefix /a, request /a/a?x=1, forwarded as https://h1/a?x=1.
C5_Witness ==
    /\ Dispatched
    /\ MatchedConfig.StripPrefix
    /\ MatchedConfig.Path = <<"/", "a">>
    /\ req.URL.Path = <<"/", "a", "/", "a">>
    /\ req.URL.RawQuery = <<"x=1">>
    /\ handed = <<"/", "a">>
    /\ outreq.URL = [Scheme |-> "https", Host |-> "h1", Path |-> <<"/", "a">>,
                     RawQuery |-> <<"x=1">>]

\* C6: for a request dispatched to a target without StripPrefix, or with
\* StripPrefix and the prefix "/", the path forwarded under the origin is
\* the full inbound path.
C6_PathPreserved ==
    (Dispatched /\ (~MatchedConfig.StripPrefix \/ MatchedConfig.Path = <<"/">>)) =>
       /\ handed = req.URL.Path
       /\ outreq.URL.Path =
             UnderOrigin(MatchedOrigin.Path, req.URL.Path)
       /\ MatchedOrigin.Path = <<>> => outreq.URL.Path = req.URL.Path

\* A target with StripPrefix and prefix "/" has forwarded //a unchanged.
C6_Witness ==
    /\ Dispatched
    /\ MatchedConfig.StripPrefix
    /\ MatchedConfig.Path = <<"/">>
    /\ req.URL.Path = <<"/", "/", "a">>
    /\ handed = <<"/", "/", "a">>
    /\ outreq.URL.Path = <<"/", "/", "a">>

\* C7: the Host of every outbound request is the host of the parsed origin
\* URL of the target it is sent to, whatever Host the inbound request had.
C7_HostIsOriginHost ==
    Dispatched =>
       /\ outreq.Host = MatchedOrigin.Host
       /\ outreq.URL.Host = MatchedOrigin.Host

\* A request that arrived with Host h1 goes to the second target as
\* Host h2:8080.
C7_Witness ==
    /\ Dispatched
    /\ matched = 2
    /\ req.Host = "h1"
    /\ outreq.Host = "h2:8080"

C9_OutboundCallBounded ==
    deadlinePassed => pc # "roundtrip"

\* What proxy.ServeHTTP(w, r) leaves in the caller's writer w itself (the
\* branch taken without verbose capture) for the upstream response so far.
DirectDelivery ==
    IF upstream.status = StatusSwitchingProtocols
    THEN handleUpgradeResponse(NewResponseWriter, outreq.Upgrade,
                               upstream.Upgrade)
    ELSE Write(WriteHeader(NewResponseWriter, upstream.status), upstream.body)

\* C10: for the same upstream response, the status and the body bytes the
\* caller is sent with verbose capture are those it is sent without.
C10_VerboseTransparent ==
    (configs.Verbose /\ pc \in {"copy", "done", "aborted"}
        /\ upstream.status # 0) =>
       /\ Caller(rw).status = DirectDelivery.status
       /\ Caller(rw).body = DirectDelivery.body
       /\ Caller(rw).hijacked = DirectDelivery.hijacked

-----------------------------------------------------------------------------
\* C11 as stated: with verbose capture enabled the recorder's retained copy
\* of the response body is never longer than 1000 bytes.
C11_RecorderBodyBounded ==
    IsRecorder(rw) => BodyLen(rw.body) <= maxBodyLogSize

-----------------------------------------------------------------------------
\* C12: the round trip of a request dispatched to a target is made on a
\* transport that skips certificate verification exactly when that target's
\* own insecure flag is set, whatever the flags of the other targets are;
\* every target's handler holds such a transport of its own.
C12_TransportFollowsOwnInsecure ==
    /\ \A j \in TargetIndexes :
           router.Targets[j].Handler.transport.InsecureSkipVerify
               = router.Targets[j].Config.Insecure
    /\ Dispatched =>
           /\ transport # NoTransport
           /\ transport[1].InsecureSkipVerify = MatchedConfig.Insecure

\* Two targets, the first insecure and the second not; a request is on its
\* way to the second with verification on.
C12_Witness ==
    /\ Dispatched
    /\ Len(router.Targets) = 2
    /\ router.Targets[1].Config.Insecure
    /\ ~router.Targets[2].Config.Insecure
    /\ matched = 2
    /\ transport = <<[InsecureSkipVerify |-> FALSE]>>

-----------------------------------------------------------------------------
\* An origin URL that is not a usable absolute URL: url.Parse rejects it, or
\* it has no http(s) scheme, or no host.
BadOrigin(rawURL) ==
    \/ Parse(rawURL).err # ""
    \/ Parse(rawURL).URL.Scheme \notin {"http", "https"}
    \/ Parse(rawURL).URL.Host = ""

\* C13 as stated: once main has run on a configuration with an empty target
\* list, with a target whose origin URL is bad, or with neither a target
\* nor a configuration file, the process has exited and serves no request.
C13_ConfigurationErrorsFatal ==
    (/\ pc # "start"
     /\ \/ Len(configs.Targets) = 0
        \/ \E i \in 1..Len(configs.Targets) :
               BadOrigin(configs.Targets[i].TargetURL))
        => pc = "exited"

-----------------------------------------------------------------------------
\* C14 as stated: in configuration-file mode, a listen address, timeout or
\* verbose flag given on the command line (a value other than the flag's
\* default) is the effective one when the file sets that field too.
C14_CommandLineOverridesFile ==
    (pc \notin {"start", "exited"} /\ args.config # "") =>
        /\ (args.listen # DefaultListen /\ args.file.listen # <<>>)
               => configs.Listen = args.listen
        /\ (args.timeout # DefaultTimeout /\ args.file.timeout # <<>>)
               => configs.Timeout = args.timeout
        /\ (args.verbose /\ args.file.verbose # <<>>)
               => configs.Verbose = args.verbose

-----------------------------------------------------------------------------
\* The routing table main built from the command line.
Built == NewRouter(LoadConfigs(args).configs.Targets)

\* C15: whatever exchanges came before and however they ended, the process
\* is serving, configs and the routing table are those main built, an idle
\* server holds nothing of an earlier exchange, and a request is matched,
\* rewritten and sent exactly as the freshly built router would do it.
C15_NoStateLeftBehind ==
    /\ pc \in {"idle", "roundtrip", "copy", "done", "aborted", "fallback"}
    /\ configs = LoadConfigs(args).configs
    /\ router = Built
    /\ pc = "idle" => Exchange = IdleExchange
    /\ Dispatched =>
           LET m == MatchedTarget(Built, req.URL.Path)
           IN  /\ m # 0
               /\ matched = m
               /\ handed = Stripped(Built.Targets[m].Handler, req)
               /\ outreq = Director(Built.Targets[m].Handler, req)
               /\ transport = <<Built.Targets[m].Handler.transport>>
               /\ rw = Sink(NewResponseWriter)
    /\ AnsweredByRouter =>
           /\ MatchedTarget(Built, req.URL.Path) = 0
           /\ rw = NotFound(NewResponseWriter)

\* A request on its way to a backend after an earlier exchange failed.
C15_Witness ==
    /\ failedBefore
    /\ Dispatched
    /\ outreq.URL.Host = MatchedOrigin.Host

-----------------------------------------------------------------------------
Orders(n) ==
    {f \in [1..n -> 1..n] : \A i, j \in 1..n : i # j => f[i] # f[j]}

\* The configured targets declared in the order f.
Reordered(f) == [i \in DOMAIN f |-> router.Targets[f[i]].Config]

DistinctPrefixes ==
    \A i, j \in TargetIndexes : i # j => PrefixOf(i) # PrefixOf(j)

\* C16: when the configured prefixes are pairwise distinct, the router
\* built from any reordering of the targets selects the same target for the
\* request, and none where this router selects none.
C16_OrderIndependent ==
    ((Dispatched \/ AnsweredByRouter) /\ DistinctPrefixes) =>
        \A f \in Orders(Len(router.Targets)) :
            LET m == MatchedTarget(NewRouter(Reordered(f)), req.URL.Path)
            IN  IF matched = 0 THEN m = 0 ELSE m # 0 /\ f[m] = matched

\* "/" declared before "/a" (with StripPrefix): /a/a goes to the second
\* target as /a under its origin.
C16_Witness ==
    /\ Dispatched
    /\ Len(router.Targets) = 2
    /\ PrefixOf(1) = <<"/">>
    /\ PrefixOf(2) = <<"/", "a">>
    /\ MatchedConfig.StripPrefix
    /\ req.URL.Path = <<"/", "a", "/", "a">>
    /\ matched = 2
    /\ handed = <<"/", "a">>
    /\ outreq.URL.Host = "h2:8080"
    /\ outreq.URL.Path = <<"/", "b", "/", "a">>

-----------------------------------------------------------------------------
\* What exchange e shows of its own upstream response.
OwnResponseOnly(e) ==
    /\ e.pc = "roundtrip" => e.rw = Sink(NewResponseWriter)
    /\ (e.pc \in {"copy", "done", "aborted"} /\ e.upstream.err = ""
            /\ e.upstream.status \notin {0, StatusSwitchingProtocols}) =>
           /\ Caller(e.rw).status = e.upstream.status
           /\ Caller(e.rw).body = e.upstream.body
           /\ IsRecorder(e.rw) => /\ e.rw.statusCode = e.upstream.status
                                  /\ e.rw.body = e.upstream.body
    /\ e.upstream.err # "" =>
           /\ Caller(e.rw).status = StatusBadGateway
           /\ Caller(e.rw).body = ErrorText(e.upstream.err)
           /\ IsRecorder(e.rw) => /\ e.rw.statusCode = StatusBadGateway
                                  /\ e.rw.body = ErrorText(e.upstream.err)
    /\ e.logged # NoLog =>
           /\ e.logged[1].statusCode = e.rw.statusCode
           /\ e.logged[1].body = Take(e.rw.body, maxBodyLogSize)

\* C17: with verbose capture on and two requests in flight, the status and
\* body each caller has received, and the status and body each recorder
\* holds and logs, are those of that exchange's own upstream response.
C17_ExchangesPrivate ==
    OwnResponseOnly(Exchange) /\ OwnResponseOnly(other)

\* Both exchanges are relaying a body, with different statuses and
\* different bytes.
C17_Witness ==
    /\ pc = "copy"
    /\ other.pc = "copy"
    /\ IsRecorder(rw) /\ IsRecorder(other.rw)
    /\ upstream.status # other.upstream.status
    /\ upstream.body # <<>>
    /\ other.upstream.body # <<>>
    /\ upstream.body[1] # other.upstream.body[1]
    /\ rw.body = upstream.body
    /\ other.rw.body = other.upstream.body

-----------------------------------------------------------------------------
\* C18: a request dispatched to a target is rewritten with that target's
\* own prefix, StripPrefix flag and origin, whichever target was declared
\* last.
C18_DirectorUsesOwnTarget ==
    Dispatched =>
        /\ router.Targets[matched].Handler.targetConfig = MatchedConfig
        /\ router.Targets[matched].Handler.i = matched - 1
        /\ handed = IF MatchedConfig.StripPrefix /\ MatchedConfig.Path # <<"/">>
                    THEN Remainder(req.URL.Path, Len(MatchedConfig.Path))
                    ELSE req.URL.Path
        /\ outreq.URL.Scheme = MatchedOrigin.Scheme
        /\ outreq.URL.Host = MatchedOrigin.Host
        /\ outreq.Host = MatchedOrigin.Host
        /\ outreq.URL.Path = UnderOrigin(MatchedOrigin.Path, handed)

\* The first of two targets keeps the path it matched, although the last
\* declared target strips its prefix.
C18_Witness ==
    /\ Dispatched
    /\ Len(router.Targets) = 2
    /\ matched = 1
    /\ PrefixOf(1) = <<"/", "a">>
    /\ ~router.Targets[1].Config.StripPrefix
    /\ PrefixOf(2) = <<"/">>
    /\ router.Targets[2].Config.StripPrefix
    /\ req.URL.Path = <<"/", "a", "/", "a">>
    /\ handed = req.URL.Path
    /\ outreq.URL.Host = "h1"

-----------------------------------------------------------------------------
\* C19: a target whose prefix is the empty string is never the one a
\* request is dispatched to; a request that only such targets match gets
\* the fallback or, with none, the 404 of the router.
C19_EmptyPrefixNeverSelected ==
    /\ Dispatched => PrefixOf(matched) # <<>>
    /\ ((Dispatched \/ AnsweredByRouter)
            /\ \A j \in TargetIndexes : Matches(j) => PrefixOf(j) = <<>>) =>
           /\ matched = 0
           /\ AnsweredByRouter
           /\ Caller(rw).status = StatusNotFound

\* An empty-prefix target is configured, it matches /a, and the router
\* answers 404.
C19_Witness ==
    /\ AnsweredByRouter
    /\ \E j \in TargetIndexes : PrefixOf(j) = <<>> /\ Matches(j)
    /\ req.URL.Path = <<"/", "a">>
    /\ Caller(rw).status = StatusNotFound


====
